---- MODULE Spec2Model ----
(***************************************************************************)
(* Model of src/src/onion/tunnel.rs: the originator-side Tunnel, the       *)
(* TunnelBuilder retry loop and the TunnelHandler state machine together   *)
(* with the background tasks it spawns (next-tunnel builds, old-tunnel     *)
(* teardowns).                                                             *)
(***************************************************************************)
EXTENDS Naturals, Sequences, FiniteSets

(* ------------------------------------------------------------------ *)
(* Program constants and model bounds                                  *)
(* ------------------------------------------------------------------ *)

\* const MAX_PEER_FAILURES: usize = 10;
MAX_PEER_FAILURES == 10

\* Largest builder.n_hops explored.
MaxHops == 1
\* Requests the application puts on the request channel.
MaxRequests == 4
\* Inbound frames delivered by accept_opaque.
MaxInbound == 1
\* Longest tunnel (in hops) the calls on a single Tunnel are followed to.
MaxTunnelLen == 3

\* The destination peer of the builder (TunnelBuilder.dest).
Dest == "D"
\* Peers the peer provider hands out.
RandomPeers == {"P"}
\* TunnelBuilder.tunnel_id, and the ids a tunnel or an inbound DATA may carry.
BuilderTunnelId == 7
TunnelIds == {BuilderTunnelId, BuilderTunnelId + 1}
\* Application payloads.
Payloads == {"a"}

\* Option<T>: None is the empty sequence, Some(x) the one-element sequence.
None == <<>>
Some(x) == <<x>>
Unwrap(o) == o[1]

(* ------------------------------------------------------------------ *)
(* Tunnel                                                              *)
(* ------------------------------------------------------------------ *)

\* A session key, named by the peer it was negotiated with and the physical
\* position of that hop at the time of the handshake.
SessionKey(peer, pos) == [peer |-> peer, pos |-> pos]

\* The results of a socket operation (OnionSocketError::Peer or any other error).
SocketOutcomes == {"Ok", "Peer", "Io"}

\* impl From<OnionSocketError> for TunnelError
FromSocketError(e) == IF e = "Peer" THEN "Incomplete" ELSE "Broken"

\* Tunnel::init on success: one hop, one key. uid names the instance.
TunnelInit(uid, id, peer) ==
    [uid |-> uid, id |-> id, hops |-> <<peer>>,
     session_keys |-> <<SessionKey(peer, 1)>>]

\* Tunnel::len
TunnelLen(t) == Len(t.session_keys)

\* A truncate whose guard lets n = len through.
TruncateOffByOne(t, n, sock) ==
    IF n > Len(t.session_keys)
    THEN [res |-> "Incomplete", tunnel |-> t, sent |-> FALSE]
    ELSE IF sock # "Ok"
    THEN [res |-> FromSocketError(sock), tunnel |-> t, sent |-> TRUE]
    ELSE [res |-> "Ok",
          tunnel |-> [t EXCEPT
              !.hops = SubSeq(@, 1, Len(t.session_keys) - n),
              !.session_keys = SubSeq(@, n + 1, Len(@))],
          sent |-> TRUE]

\* Tunnel::truncate(n) with the socket outcome sock of truncate_tunnel.
\* On success the hop that owns the first key of session_keys[n..] (the innermost
\* layer of the message) stays terminal and the first n keys are removed.
\* sent: a TUNNEL TRUNCATE message went out.
Truncate(t, n, sock) ==
    IF n >= Len(t.session_keys)
    THEN [res |-> "Incomplete", tunnel |-> t, sent |-> FALSE]
    ELSE IF sock # "Ok"
    THEN [res |-> FromSocketError(sock), tunnel |-> t, sent |-> TRUE]
    ELSE [res |-> "Ok",
          tunnel |-> [t EXCEPT
              !.hops = SubSeq(@, 1, t.session_keys[n + 1].pos),
              !.session_keys = SubSeq(@, n + 1, Len(@))],
          sent |-> TRUE]

\* The outcomes of one extend: the socket result of the EXTEND round, whether
\* derive_secret accepts the answer, and the socket result of the rollback
\* truncate (only read when derive_secret fails).
ExtendOutcomes ==
    {[sock |-> "Ok", derive |-> TRUE, trunc |-> "Ok"]}
    \cup {[sock |-> "Ok", derive |-> FALSE, trunc |-> s] : s \in {"Ok", "Peer", "Io"}}
    \cup {[sock |-> s, derive |-> TRUE, trunc |-> "Ok"] : s \in {"Peer", "Io"}}

\* An extend that stores the key before it verifies the answer and leaves it
\* there when the verification fails.
ExtendKeepsKey(t, peer, o) ==
    IF o.sock # "Ok"
    THEN [res |-> FromSocketError(o.sock), tunnel |-> t, sent |-> FALSE]
    ELSE LET keyed == [t EXCEPT
                 !.hops = Append(@, peer),
                 !.session_keys = <<SessionKey(peer, Len(t.hops) + 1)>> \o @]
         IN  IF o.derive
             THEN [res |-> "Ok", tunnel |-> keyed, sent |-> FALSE]
             ELSE IF o.trunc = "Ok"
             THEN [res |-> "Incomplete", tunnel |-> keyed, sent |-> TRUE]
             ELSE [res |-> "Broken", tunnel |-> keyed, sent |-> TRUE]

\* An extend that pushes the new key at the end of session_keys.
ExtendAppendsKey(t, peer, o) ==
    IF o.sock # "Ok"
    THEN [res |-> FromSocketError(o.sock), tunnel |-> t, sent |-> FALSE]
    ELSE IF o.derive
    THEN [res |-> "Ok",
          tunnel |-> [t EXCEPT
              !.hops = Append(@, peer),
              !.session_keys = Append(@, SessionKey(peer, Len(t.hops) + 1))],
          sent |-> FALSE]
    ELSE LET added == [t EXCEPT !.hops = Append(@, peer)]
             tr == Truncate(added, 0, o.trunc)
         IN  IF tr.res = "Ok"
             THEN [res |-> "Incomplete", tunnel |-> tr.tunnel, sent |-> tr.sent]
             ELSE [res |-> "Broken", tunnel |-> tr.tunnel, sent |-> tr.sent]

\* Tunnel::extend. sent: the rollback truncate(0) sent its TUNNEL TRUNCATE.
Extend(t, peer, o) ==
    IF o.sock # "Ok"
    THEN [res |-> FromSocketError(o.sock), tunnel |-> t, sent |-> FALSE]
    ELSE IF o.derive
    THEN [res |-> "Ok",
          tunnel |-> [t EXCEPT
              !.hops = Append(@, peer),
              !.session_keys = <<SessionKey(peer, Len(t.hops) + 1)>> \o @],
          sent |-> FALSE]
    ELSE LET added == [t EXCEPT !.hops = Append(@, peer)]
             tr == Truncate(added, 0, o.trunc)
         IN  IF tr.res = "Ok"
             THEN [res |-> "Incomplete", tunnel |-> tr.tunnel, sent |-> tr.sent]
             ELSE [res |-> "Broken", tunnel |-> tr.tunnel, sent |-> tr.sent]

\* The record of a call on a Tunnel: its name, the argument n (truncate,
\* truncate_to_length), the peer and the outcomes met (extend, truncate), its
\* result, whether a TUNNEL TRUNCATE was sent, the tunnel before the call and
\* whether no call so far has left the tunnel Broken.
Call(name, n, peer, out, r, sent, before, clean) ==
    [name |-> name, n |-> n, peer |-> peer, out |-> out, res |-> r, sent |-> sent,
     before |-> before, clean |-> clean]

\* Tunnel::init returned Ok(t).
InitCall(t) ==
    Call("init", 0, t.hops[1], [sock |-> "Ok", derive |-> TRUE, trunc |-> "Ok"],
         "Ok", FALSE, t, TRUE)

(* ------------------------------------------------------------------ *)
(* TunnelBuilder::build                                                *)
(* ------------------------------------------------------------------ *)

\* The builders explored: TunnelBuilder { tunnel_id, dest, n_hops }.
Builders == [tunnel_id : {BuilderTunnelId}, dest : {Dest}, n_hops : 0..MaxHops]

\* The locals of one call of build(), as it enters its for loop.
\*   pc       "loop": in the for loop; "ok": returned Ok(result); "err": returned Err
\*   i        the loop counter
\*   tunnel   the local `tunnel`
\*   result   the tunnel returned
\*   rounds   calls of Tunnel::init and Tunnel::extend so far
\*   torn     partial tunnels teardown was run on
\*   dropped  partial tunnels dropped without teardown
BuildStart ==
    [pc |-> "loop", i |-> 0, tunnel |-> None, result |-> None, rounds |-> 0,
     torn |-> 0, dropped |-> 0]

\* What random_peer() can answer: a peer, or an error (the reply channel was dropped).
PeerReplies == {None} \cup {Some(p) : p \in RandomPeers}

\* A match whose guard is off by one: it extends once more.
BuildArmOneMore(tun, n_hops) ==
    IF tun = None
    THEN IF n_hops = 0 THEN "InitDest" ELSE "InitPeer"
    ELSE IF TunnelLen(Unwrap(tun)) - 1 <= n_hops THEN "Extend" ELSE "Return"

\* The arm of the match in build() that `tun` selects.
BuildArm(tun, n_hops) ==
    IF tun = None
    THEN IF n_hops = 0 THEN "InitDest" ELSE "InitPeer"
    ELSE IF TunnelLen(Unwrap(tun)) - 1 < n_hops THEN "Extend" ELSE "Return"

\* An init that draws a fresh id for every tunnel instead of self.tunnel_id.
InitResultFreshId(b, bu, uid, peer, ok) ==
    [b EXCEPT !.tunnel = IF ok THEN Some(TunnelInit(uid, bu.tunnel_id + 1, peer)) ELSE None,
              !.rounds = @ + 1, !.i = @ + 1]

\* tunnel = Tunnel::init(self.tunnel_id, peer, ..).await.ok(), ending an iteration.
InitResult(b, bu, uid, peer, ok) ==
    [b EXCEPT !.tunnel = IF ok THEN Some(TunnelInit(uid, bu.tunnel_id, peer)) ELSE None,
              !.rounds = @ + 1, !.i = @ + 1]

\* None if self.n_hops == 0 => Tunnel::init(self.tunnel_id, &self.dest, ..).await.ok()
StepInitDest(b, bu, uid) ==
    {InitResult(b, bu, uid, bu.dest, ok) : ok \in BOOLEAN}

\* None => random_peer()?, then Tunnel::init(self.tunnel_id, &peer, ..).await.ok()
StepInitPeer(b, bu, uid) ==
    {[b EXCEPT !.pc = "err"]}
    \cup {InitResult(b, bu, uid, p, ok) : p \in RandomPeers, ok \in BOOLEAN}

\* match tunnel.extend(&peer, &self.rng).await { Broken => teardown, None;
\* Incomplete => Some(tunnel); Ok => Some(tunnel) }
ExtendResult(b, peer, o) ==
    LET r == Extend(Unwrap(b.tunnel), peer, o)
    IN  [b EXCEPT !.tunnel = IF r.res = "Broken" THEN None ELSE Some(r.tunnel),
                  !.torn = IF r.res = "Broken" THEN @ + 1 ELSE @,
                  !.rounds = @ + 1, !.i = @ + 1]

\* Some(tunnel) if tunnel.len() - 1 < self.n_hops => random_peer()?, tunnel.extend(..)
StepExtend(b, bu, uid) ==
    {[b EXCEPT !.pc = "err", !.tunnel = None, !.dropped = @ + 1]}
    \cup {ExtendResult(b, p, o) : p \in RandomPeers, o \in ExtendOutcomes}

\* Some(tunnel) => return Ok(tunnel)
StepReturn(b, bu, uid) ==
    {[b EXCEPT !.pc = "ok", !.result = b.tunnel, !.tunnel = None]}

\* The for loop ran out: Err(anyhow!("failed to build tunnel")); the local
\* tunnel, if there is one, is dropped.
StepFail(b, bu, uid) ==
    {[b EXCEPT !.pc = "err", !.tunnel = None,
               !.dropped = IF b.tunnel # None THEN @ + 1 ELSE @]}

\* A loop that runs once more: for i in 0..=MAX_PEER_FAILURES.
InRangeInclusive(i) == i <= MAX_PEER_FAILURES

\* for i in 0..MAX_PEER_FAILURES: the loop has an iteration left at counter i.
InRange(i) == i < MAX_PEER_FAILURES

\* One iteration of the for loop of build(), or its exit: the states it can lead to.
BuildStep(b, bu, uid) ==
    IF ~InRange(b.i)
    THEN StepFail(b, bu, uid)
    ELSE CASE BuildArm(b.tunnel, bu.n_hops) = "InitDest" -> StepInitDest(b, bu, uid)
           [] BuildArm(b.tunnel, bu.n_hops) = "InitPeer" -> StepInitPeer(b, bu, uid)
           [] BuildArm(b.tunnel, bu.n_hops) = "Extend" -> StepExtend(b, bu, uid)
           [] OTHER -> StepReturn(b, bu, uid)

\* build() run to its return from the states S: every state it can return in.
RECURSIVE BuildRun(_, _, _)
BuildRun(S, bu, uid) ==
    IF \A b \in S : b.pc # "loop"
    THEN S
    ELSE BuildRun({b \in S : b.pc # "loop"}
                  \cup UNION {BuildStep(b, bu, uid) : b \in {x \in S : x.pc = "loop"}},
                  bu, uid)

\* What build() can return for each builder: Ok(result) or Err.
BuildReturns ==
    UNION {{[builder |-> bu, pc |-> b.pc, result |-> b.result] :
                b \in BuildRun({BuildStart}, bu, 0)} : bu \in Builders}

(* ------------------------------------------------------------------ *)
(* Tunnel::truncate_to_length                                          *)
(* ------------------------------------------------------------------ *)

\* Tunnel::truncate_to_length(n_hops), entered with num_fails failures counted:
\* the results its loop of truncate(1) calls can end with. sent: one of the
\* truncate calls so far (sent) or of the remaining loop sent a TUNNEL TRUNCATE.
RECURSIVE TruncateToLengthFrom(_, _, _, _)
TruncateToLengthFrom(t, n_hops, num_fails, sent) ==
    IF ~(Len(t.session_keys) > n_hops + 1)
    THEN {[res |-> "Ok", tunnel |-> t, sent |-> sent]}
    ELSE UNION {
        LET r == Truncate(t, 1, sock)
            s == sent \/ r.sent
        IN  CASE r.res = "Broken" -> {[res |-> "Broken", tunnel |-> r.tunnel, sent |-> s]}
              [] r.res = "Incomplete" ->
                    IF num_fails + 1 >= MAX_PEER_FAILURES
                    THEN {[res |-> "Incomplete", tunnel |-> r.tunnel, sent |-> s]}
                    ELSE TruncateToLengthFrom(r.tunnel, n_hops, num_fails + 1, s)
              [] OTHER -> TruncateToLengthFrom(r.tunnel, n_hops, num_fails, s)
        : sock \in SocketOutcomes}

\* Tunnel::truncate_to_length(n_hops)
TruncateToLength(t, n_hops) == TruncateToLengthFrom(t, n_hops, 0, FALSE)

(* ------------------------------------------------------------------ *)
(* State                                                               *)
(* ------------------------------------------------------------------ *)

VARIABLES
    builder,          \* TunnelBuilder: tunnel_id, dest, n_hops
    first_tunnel,     \* the first_tunnel argument of TunnelHandler::new
    state,            \* TunnelHandler.state
    tunnel,           \* TunnelHandler.tunnel
    next_tunnel,      \* TunnelHandler.next_tunnel: Option<Tunnel> behind the mutex
    requests,         \* the request channel's queue
    requestsOpen,     \* a sender of the request channel is still alive
    events,           \* events accepted by the event channel
    eventsOpen,       \* the receiver of the event channel is still alive
    hpc,              \* handle(): "running" (in its loop), "unbuild_current" and
                      \* "unbuild_next" (waiting in the Destroying arm),
                      \* "returned_ok", "returned_err", "panicked"
    builds,           \* the tasks spawned by spawn_next_tunnel_task, in spawn order
    pendingTeardown,  \* tunnels moved into a spawned unbuild task that has not run yet
    tornDown,         \* uids of the handler's tunnels teardown has been run on
    wire,             \* BEGIN and DATA sends of the handler, in order
    nSent,            \* requests sent by the application so far
    nInbound,         \* inbound frames delivered so far
    inbound,          \* the inbound frame accept_opaque() delivered last
    bld,              \* the locals of a call of build() followed step by step
    self,             \* a Tunnel driven through init, extend, truncate, truncate_to_length
    lastCall          \* the last call on self: its arguments, outcomes and result

vars == <<builder, first_tunnel, state, tunnel, next_tunnel, requests, requestsOpen, events,
          eventsOpen, hpc, builds, pendingTeardown, tornDown, wire, nSent, nInbound, inbound,
          bld, self, lastCall>>

\* TunnelHandler::new, with the first tunnel a one-hop tunnel of any id.
\* handle() has returned or panicked.
Exited == hpc \in {"returned_ok", "returned_err", "panicked"}

Init ==
    /\ builder \in Builders
    /\ first_tunnel \in {TunnelInit(0, id, Dest) : id \in TunnelIds}
    /\ tunnel = first_tunnel
    /\ state = "Building"
    /\ next_tunnel = None
    /\ requests = <<>>
    /\ requestsOpen = TRUE
    /\ events = <<>>
    /\ eventsOpen = TRUE
    /\ hpc = "running"
    /\ builds = <<>>
    /\ pendingTeardown = {}
    /\ tornDown = {}
    /\ wire = <<>>
    /\ nSent = 0
    /\ nInbound = 0
    /\ inbound = None
    /\ bld = BuildStart
    /\ self = first_tunnel
    /\ lastCall = InitCall(first_tunnel)

(* ------------------------------------------------------------------ *)
(* The tasks of spawn_next_tunnel_task                                 *)
(* ------------------------------------------------------------------ *)

\* The task as spawned. pc is "build": the task has not finished; "done": it
\* deposited its tunnel; "panicked": build() returned Err and unwrap() panicked.
NewBuildTask == [pc |-> "build"]

\* async move { let new_tunnel = builder.build().await.unwrap();
\*              next_tunnel.lock().await.replace(new_tunnel); }
\* The tunnel of the k-th task has uid k. replace() drops what the cell held.
\* lock() waits while the handler holds the mutex (hpc = "unbuild_next").
TaskBuild(k) ==
    /\ k \in 1..Len(builds)
    /\ builds[k].pc = "build"
    /\ hpc # "unbuild_next"
    /\ \E r \in BuildReturns :
          /\ r.builder = builder
          /\ IF r.pc = "ok"
             THEN /\ builds' = [builds EXCEPT ![k].pc = "done"]
                  /\ next_tunnel' = Some([Unwrap(r.result) EXCEPT !.uid = k])
             ELSE /\ builds' = [builds EXCEPT ![k].pc = "panicked"]
                  /\ UNCHANGED next_tunnel
    /\ UNCHANGED <<builder, first_tunnel, state, tunnel, requests, requestsOpen, events,
                   eventsOpen, hpc, pendingTeardown, tornDown, wire, nSent, nInbound, inbound, bld, self, lastCall>>

(* ------------------------------------------------------------------ *)
(* The application side of the two channels                            *)
(* ------------------------------------------------------------------ *)

\* enum Request, each tagged with its position in the channel.
RequestsOf(seq) ==
    {[kind |-> "Data", data |-> d, seq |-> seq] : d \in Payloads}
    \cup {[kind |-> k, data |-> "-", seq |-> seq] : k \in {"Switchover", "Destroy"}}

\* A sender puts a request on the unbounded request channel.
AppSend ==
    /\ requestsOpen
    /\ ~Exited
    /\ nSent < MaxRequests
    /\ \E req \in RequestsOf(nSent + 1) : requests' = Append(requests, req)
    /\ nSent' = nSent + 1
    /\ UNCHANGED <<builder, first_tunnel, state, tunnel, next_tunnel, requestsOpen, events, eventsOpen,
                   hpc, builds, pendingTeardown, tornDown, wire, nInbound, inbound, bld, self, lastCall>>

\* Every sender of the request channel is dropped (while the handler runs: the
\* channels of a handler that has exited are read by nobody).
AppDropRequests ==
    /\ requestsOpen
    /\ ~Exited
    /\ requestsOpen' = FALSE
    /\ UNCHANGED <<builder, first_tunnel, state, tunnel, next_tunnel, requests, events, eventsOpen,
                   hpc, builds, pendingTeardown, tornDown, wire, nSent, nInbound, inbound, bld, self, lastCall>>

\* The receiver of the event channel is dropped.
AppDropEvents ==
    /\ eventsOpen
    /\ ~Exited
    /\ eventsOpen' = FALSE
    /\ UNCHANGED <<builder, first_tunnel, state, tunnel, next_tunnel, requests, requestsOpen, events,
                   hpc, builds, pendingTeardown, tornDown, wire, nSent, nInbound, inbound, bld, self, lastCall>>

(* ------------------------------------------------------------------ *)
(* TunnelHandler                                                       *)
(* ------------------------------------------------------------------ *)

\* A match that runs the Building arm for every Switchover before Destroying.
RequestArmAlwaysAnnounce(kind, st) ==
    CASE kind = "Data" /\ st = "Ready" -> "DataReady"
      [] kind = "Switchover" /\ st \in {"Building", "Ready"} -> "SwitchoverBuilding"
      [] kind = "Switchover" /\ st = "Destroying" -> "SwitchoverDestroying"
      [] kind = "Destroy" /\ st = "Ready" -> "DestroyReady"
      [] OTHER -> "Illegal"

\* A match that takes Request::Destroy in every state.
RequestArmDestroyAnywhere(kind, st) ==
    CASE kind = "Data" /\ st = "Ready" -> "DataReady"
      [] kind = "Switchover" /\ st = "Building" -> "SwitchoverBuilding"
      [] kind = "Switchover" /\ st = "Ready" -> "SwitchoverReady"
      [] kind = "Switchover" /\ st = "Destroying" -> "SwitchoverDestroying"
      [] kind = "Destroy" -> "DestroyReady"
      [] OTHER -> "Illegal"

\* The arm of the match (req, self.state) in handle_request.
RequestArm(kind, st) ==
    CASE kind = "Data" /\ st = "Ready" -> "DataReady"
      [] kind = "Switchover" /\ st = "Building" -> "SwitchoverBuilding"
      [] kind = "Switchover" /\ st = "Ready" -> "SwitchoverReady"
      [] kind = "Switchover" /\ st = "Destroying" -> "SwitchoverDestroying"
      [] kind = "Destroy" /\ st = "Ready" -> "DestroyReady"
      [] OTHER -> "Illegal"

\* handle() is in its loop, requests.recv() yields the head of the queue, and
\* handle_request matches it at the arm `arm`.
Receives(arm) ==
    /\ hpc = "running"
    /\ state # "Destroyed"
    /\ requests # <<>>
    /\ RequestArm(Head(requests).kind, state) = arm

\* A spawn_next_tunnel_task that starts two builds.
SpawnTwice(bs) == Append(Append(bs, NewBuildTask), NewBuildTask)

\* spawn_next_tunnel_task
SpawnNextTunnelTask(bs) == Append(bs, NewBuildTask)

\* The frame a send on tunnel t puts on the wire, with the socket's result.
Frame(kind, t, data, seq, res) ==
    [kind |-> kind, uid |-> t.uid, tunnel_id |-> t.id, data |-> data, seq |-> seq,
     res |-> res]

\* A Data arm that sends but leaves the request in the queue.
ReqDataKeepsRequest ==
    /\ Receives("DataReady")
    /\ \E res \in SocketOutcomes :
          /\ wire' = Append(wire, Frame("DATA", tunnel, Head(requests).data,
                                        Head(requests).seq, res))
          /\ hpc' = IF res = "Ok" THEN "running" ELSE "returned_err"
    /\ UNCHANGED <<builder, first_tunnel, state, tunnel, next_tunnel, requests, requestsOpen,
                   events, eventsOpen, builds, pendingTeardown, tornDown, nSent, nInbound, inbound,
                   bld, self, lastCall>>

\* (Request::Data { data }, State::Ready): send_data(...).await?
ReqData ==
    /\ Receives("DataReady")
    /\ \E res \in SocketOutcomes :
          /\ wire' = Append(wire, Frame("DATA", tunnel, Head(requests).data,
                                        Head(requests).seq, res))
          /\ hpc' = IF res = "Ok" THEN "running" ELSE "returned_err"
    /\ requests' = Tail(requests)
    /\ UNCHANGED <<builder, first_tunnel, state, tunnel, next_tunnel, requestsOpen, events, eventsOpen,
                   builds, pendingTeardown, tornDown, nSent, nInbound, inbound, bld, self, lastCall>>

\* (Request::Switchover, State::Building)
ReqSwitchoverBuilding ==
    /\ Receives("SwitchoverBuilding")
    /\ requests' = Tail(requests)
    /\ state' = "Ready"
    /\ IF eventsOpen
       THEN /\ events' = Append(events, [kind |-> "Ready", tunnel_id |-> tunnel.id,
                                         data |-> "-"])
            /\ builds' = SpawnNextTunnelTask(builds)
            /\ UNCHANGED hpc
       ELSE /\ hpc' = "returned_err"
            /\ UNCHANGED <<events, builds>>
    /\ UNCHANGED <<builder, first_tunnel, tunnel, next_tunnel, requestsOpen, eventsOpen,
                   pendingTeardown, tornDown, wire, nSent, nInbound, inbound, bld, self, lastCall>>

\* (Request::Switchover, State::Ready) with next_tunnel empty:
\* ok_or(anyhow!("Switchover failed: no next tunnel"))?
ReqSwitchoverNoNext ==
    /\ Receives("SwitchoverReady")
    /\ next_tunnel = None
    /\ requests' = Tail(requests)
    /\ hpc' = "returned_err"
    /\ UNCHANGED <<builder, first_tunnel, state, tunnel, next_tunnel, requestsOpen, events, eventsOpen,
                   builds, pendingTeardown, tornDown, wire, nSent, nInbound, inbound, bld, self, lastCall>>

\* A switchover that installs a copy of the next tunnel and leaves the cell full.
ReqSwitchoverReadyKeepsNext ==
    /\ Receives("SwitchoverReady")
    /\ next_tunnel # None
    /\ requests' = Tail(requests)
    /\ tunnel' = Unwrap(next_tunnel)
    /\ \E res \in SocketOutcomes :
          /\ wire' = Append(wire, Frame("BEGIN", tunnel', "-", Head(requests).seq, res))
          /\ IF res = "Ok"
             THEN /\ builds' = SpawnNextTunnelTask(builds)
                  /\ pendingTeardown' = pendingTeardown \cup {tunnel.uid}
                  /\ UNCHANGED hpc
             ELSE /\ hpc' = "returned_err"
                  /\ UNCHANGED <<builds, pendingTeardown>>
    /\ UNCHANGED <<builder, first_tunnel, state, next_tunnel, requestsOpen, events, eventsOpen,
                   tornDown, nSent, nInbound, inbound, bld, self, lastCall>>

\* (Request::Switchover, State::Ready) with a next tunnel: take, swap, begin()?,
\* spawn the next build, spawn the unbuild of the old tunnel.
ReqSwitchoverReady ==
    /\ Receives("SwitchoverReady")
    /\ next_tunnel # None
    /\ requests' = Tail(requests)
    /\ next_tunnel' = None
    /\ tunnel' = Unwrap(next_tunnel)
    /\ \E res \in SocketOutcomes :
          /\ wire' = Append(wire, Frame("BEGIN", tunnel', "-", Head(requests).seq, res))
          /\ IF res = "Ok"
             THEN /\ builds' = SpawnNextTunnelTask(builds)
                  /\ pendingTeardown' = pendingTeardown \cup {tunnel.uid}
                  /\ UNCHANGED hpc
             ELSE /\ hpc' = "returned_err"
                  /\ UNCHANGED <<builds, pendingTeardown>>
    /\ UNCHANGED <<builder, first_tunnel, state, requestsOpen, events, eventsOpen, tornDown, nSent,
                   nInbound, inbound, bld, self, lastCall>>

\* An arm that never finds a tunnel in next_tunnel.
UnbuildNextSkipped(next) == {}

\* if let Some(next_tunnel) = self.next_tunnel.lock().await.deref() { .. }:
\* the tunnel the arm unbuilds while it holds the mutex.
UnbuildNext(next) == IF next # None THEN {Unwrap(next).uid} ELSE {}

\* (Request::Switchover, State::Destroying): self.state = State::Destroyed, then
\* the arm waits in self.tunnel.unbuild(..).await.
ReqSwitchoverDestroying ==
    /\ Receives("SwitchoverDestroying")
    /\ requests' = Tail(requests)
    /\ state' = "Destroyed"
    /\ hpc' = "unbuild_current"
    /\ UNCHANGED <<builder, first_tunnel, tunnel, next_tunnel, requestsOpen, events, eventsOpen,
                   builds, pendingTeardown, tornDown, wire, nSent, nInbound, inbound, bld, self, lastCall>>

\* self.tunnel.unbuild(..) returns; the arm locks next_tunnel and reads it: with
\* a tunnel in the cell it waits in next_tunnel.unbuild(..).await holding the
\* mutex, with none handle_request returns Ok.
UnbuildCurrentDone ==
    /\ hpc = "unbuild_current"
    /\ tornDown' = tornDown \cup {tunnel.uid}
    /\ hpc' = IF UnbuildNext(next_tunnel) # {} THEN "unbuild_next" ELSE "running"
    /\ UNCHANGED <<builder, first_tunnel, state, tunnel, next_tunnel, requests, requestsOpen, events,
                   eventsOpen, builds, pendingTeardown, wire, nSent, nInbound, inbound, bld, self, lastCall>>

\* next_tunnel.unbuild(..) returns; the tunnel stays in the cell, the mutex is
\* released and handle_request returns Ok.
UnbuildNextDone ==
    /\ hpc = "unbuild_next"
    /\ tornDown' = tornDown \cup UnbuildNext(next_tunnel)
    /\ hpc' = "running"
    /\ UNCHANGED <<builder, first_tunnel, state, tunnel, next_tunnel, requests, requestsOpen, events,
                   eventsOpen, builds, pendingTeardown, wire, nSent, nInbound, inbound, bld, self, lastCall>>

\* (Request::Destroy, State::Ready) => self.state = State::Destroying
ReqDestroy ==
    /\ Receives("DestroyReady")
    /\ requests' = Tail(requests)
    /\ state' = "Destroying"
    /\ UNCHANGED <<builder, first_tunnel, tunnel, next_tunnel, requestsOpen, events, eventsOpen, hpc,
                   builds, pendingTeardown, tornDown, wire, nSent, nInbound, inbound, bld, self, lastCall>>

\* _ => return Err(anyhow!("Illegal TunnelHandler state"))
ReqIllegal ==
    /\ Receives("Illegal")
    /\ requests' = Tail(requests)
    /\ hpc' = "returned_err"
    /\ UNCHANGED <<builder, first_tunnel, state, tunnel, next_tunnel, requestsOpen, events, eventsOpen,
                   builds, pendingTeardown, tornDown, wire, nSent, nInbound, inbound, bld, self, lastCall>>

\* State::Building, requests.recv() yields None: the only branch of select! is
\* disabled and there is no else branch, so select! panics.
RecvClosedBuilding ==
    /\ hpc = "running"
    /\ state = "Building"
    /\ requests = <<>>
    /\ ~requestsOpen
    /\ hpc' = "panicked"
    /\ UNCHANGED <<builder, first_tunnel, state, tunnel, next_tunnel, requests, requestsOpen, events,
                   eventsOpen, builds, pendingTeardown, tornDown, wire, nSent, nInbound, inbound, bld, self, lastCall>>

\* State::Destroyed => return Ok(())
HandleDestroyed ==
    /\ hpc = "running"
    /\ state = "Destroyed"
    /\ hpc' = "returned_ok"
    /\ UNCHANGED <<builder, first_tunnel, state, tunnel, next_tunnel, requests, requestsOpen, events,
                   eventsOpen, builds, pendingTeardown, tornDown, wire, nSent, nInbound, inbound, bld, self, lastCall>>

\* The sequence s back to front.
Reverse(s) == [i \in 1..Len(s) |-> s[Len(s) + 1 - i]]

\* A handler that peels the layers in list order.
PeelOrderForward(keys) == keys

\* self.tunnel.session_keys.iter().rev(): the keys in the order decrypt applies them.
PeelOrder(keys) == Reverse(keys)

\* The layers on a frame that came back through tunnel t, outermost first: every
\* hop adds its layer on the way back, the first hop last.
ReturnLayers(t) == [i \in 1..Len(t.hops) |-> SessionKey(t.hops[i], i)]

\* What accept_opaque() can yield on the circuit of tunnel t: a socket error, or
\* an OPAQUE frame: one decrypt() rejects, or an inner DATA, END or other
\* message under the layers of the way back, or an inner DATA under layers put
\* on in the opposite order.
InboundFrames(t) ==
    {[kind |-> k, tunnel_id |-> 0, data |-> "-", layers |-> ReturnLayers(t)] :
        k \in {"SocketErr", "DecryptErr", "End", "Other"}}
    \cup {[kind |-> "Data", tunnel_id |-> id, data |-> d, layers |-> lay] :
            id \in TunnelIds, d \in Payloads,
            lay \in {ReturnLayers(t), Reverse(ReturnLayers(t))}}

\* msg? ; msg.decrypt(keys.iter().rev())? ; read_with_digest_from: what the
\* frame parses as. A frame peeled with other keys than its layers has a broken
\* digest.
Parse(msg, keys) ==
    IF msg.kind \in {"SocketErr", "DecryptErr"}
    THEN msg.kind
    ELSE IF msg.layers = PeelOrder(keys) THEN msg.kind ELSE "Other"

\* handle_tunnel_message in State::Ready | State::Destroying
HandleTunnelMessage ==
    /\ hpc = "running"
    /\ state \in {"Ready", "Destroying"}
    /\ nInbound < MaxInbound
    /\ nInbound' = nInbound + 1
    /\ \E msg \in InboundFrames(tunnel) :
          /\ inbound' = Some(msg)
          /\ CASE Parse(msg, tunnel.session_keys) \in {"SocketErr", "DecryptErr"} ->
                  /\ hpc' = "returned_err"
                  /\ UNCHANGED events
               [] Parse(msg, tunnel.session_keys) = "Data" ->
                  IF eventsOpen
                  THEN /\ events' = Append(events, [kind |-> "Data",
                                  tunnel_id |-> msg.tunnel_id, data |-> msg.data])
                       /\ UNCHANGED hpc
                  ELSE /\ hpc' = "returned_err"
                       /\ UNCHANGED events
               [] OTHER ->
                  /\ hpc' = "panicked"
                  /\ UNCHANGED events
    /\ UNCHANGED <<builder, first_tunnel, state, tunnel, next_tunnel, requests, requestsOpen, eventsOpen,
                   builds, pendingTeardown, tornDown, wire, nSent, bld, self, lastCall>>

\* The task spawned for old_tunnel.unbuild(&rng) runs.
TeardownTask ==
    /\ \E u \in pendingTeardown :
          /\ pendingTeardown' = pendingTeardown \ {u}
          /\ tornDown' = tornDown \cup {u}
    /\ UNCHANGED <<builder, first_tunnel, state, tunnel, next_tunnel, requests, requestsOpen, events,
                   eventsOpen, hpc, builds, wire, nSent, nInbound, inbound, bld, self, lastCall>>

(* ------------------------------------------------------------------ *)
(* Specification of the handler and its tasks                          *)
(* ------------------------------------------------------------------ *)

\* Every Switchover spawns at most one task.
BuildTasks == 1..MaxRequests

Next ==
    \/ AppSend
    \/ AppDropRequests
    \/ AppDropEvents
    \/ ReqData
    \/ ReqSwitchoverBuilding
    \/ ReqSwitchoverNoNext
    \/ ReqSwitchoverReady
    \/ ReqSwitchoverDestroying
    \/ UnbuildCurrentDone
    \/ UnbuildNextDone
    \/ ReqDestroy
    \/ ReqIllegal
    \/ RecvClosedBuilding
    \/ HandleDestroyed
    \/ HandleTunnelMessage
    \/ TeardownTask
    \/ \E k \in BuildTasks : TaskBuild(k)

Spec == Init /\ [][Next]_vars

(* ------------------------------------------------------------------ *)
(* Specification of one call of build(), step by step                  *)
(* ------------------------------------------------------------------ *)

notBuild == <<state, tunnel, next_tunnel, requests, requestsOpen, events, eventsOpen,
              hpc, builds, pendingTeardown, tornDown, wire, nSent, nInbound, inbound>>

\* build() is in its loop with an iteration left, at the arm `arm`.
InLoop(arm) ==
    /\ bld.pc = "loop"
    /\ InRange(bld.i)
    /\ BuildArm(bld.tunnel, builder.n_hops) = arm

BuildInitDest ==
    /\ InLoop("InitDest")
    /\ bld' \in StepInitDest(bld, builder, 1)
    /\ UNCHANGED <<builder, first_tunnel, notBuild, self, lastCall>>

BuildInitPeer ==
    /\ InLoop("InitPeer")
    /\ bld' \in StepInitPeer(bld, builder, 1)
    /\ UNCHANGED <<builder, first_tunnel, notBuild, self, lastCall>>

BuildExtend ==
    /\ InLoop("Extend")
    /\ bld' \in StepExtend(bld, builder, 1)
    /\ UNCHANGED <<builder, first_tunnel, notBuild, self, lastCall>>

BuildReturn ==
    /\ InLoop("Return")
    /\ bld' \in StepReturn(bld, builder, 1)
    /\ UNCHANGED <<builder, first_tunnel, notBuild, self, lastCall>>

BuildFail ==
    /\ bld.pc = "loop"
    /\ ~InRange(bld.i)
    /\ bld' \in StepFail(bld, builder, 1)
    /\ UNCHANGED <<builder, first_tunnel, notBuild, self, lastCall>>

NextBuild ==
    \/ BuildInitDest
    \/ BuildInitPeer
    \/ BuildExtend
    \/ BuildReturn
    \/ BuildFail

SpecBuild == Init /\ [][NextBuild]_vars


(* ------------------------------------------------------------------ *)
(* Specification of the calls on one Tunnel                            *)
(* ------------------------------------------------------------------ *)

notTunnel == <<builder, first_tunnel, notBuild, bld>>

\* No call on self has returned Broken up to and including one returning res.
StillClean(res) == lastCall.clean /\ res # "Broken"

\* self.extend(&peer, rng)
TunExtend ==
    /\ Len(self.hops) < MaxTunnelLen
    /\ \E p \in RandomPeers, o \in ExtendOutcomes :
          LET r == Extend(self, p, o)
          IN  /\ self' = r.tunnel
              /\ lastCall' = Call("extend", 0, p, o, r.res, r.sent, self, StillClean(r.res))
    /\ UNCHANGED notTunnel

\* self.truncate(n, rng)
TunTruncate ==
    /\ \E n \in 0..(MaxTunnelLen + 1), sock \in SocketOutcomes :
          LET r == Truncate(self, n, sock)
          IN  /\ self' = r.tunnel
              /\ lastCall' = Call("truncate", n, "-", [sock |-> sock, derive |-> TRUE, trunc |-> "Ok"],
                            r.res, r.sent, self, StillClean(r.res))
    /\ UNCHANGED notTunnel

\* self.truncate_to_length(n_hops, rng)
TunTruncateToLength ==
    /\ \E n_hops \in 0..MaxTunnelLen :
          \E r \in TruncateToLength(self, n_hops) :
              /\ self' = r.tunnel
              /\ lastCall' = Call("truncate_to_length", n_hops, "-",
                            [sock |-> "Ok", derive |-> TRUE, trunc |-> "Ok"],
                            r.res, r.sent, self, StillClean(r.res))
    /\ UNCHANGED notTunnel

NextTunnel ==
    \/ TunExtend
    \/ TunTruncate
    \/ TunTruncateToLength

SpecTunnel == Init /\ [][NextTunnel]_vars

(* ------------------------------------------------------------------ *)
(* Properties                                                          *)
(* ------------------------------------------------------------------ *)

\* The handler takes the request at the head of the queue in this step.
Takes(kind) ==
    /\ hpc = "running"
    /\ requests # <<>>
    /\ Head(requests).kind = kind
    /\ requests' = Tail(requests)

\* C1: the handler state starts at Building and changes only by Building -> Ready
\* on Request::Switchover, Ready -> Destroying on Request::Destroy and
\* Destroying -> Destroyed on Request::Switchover.
C1_StateMachine ==
    /\ state = "Building"
    /\ [][state' # state =>
            \/ state = "Building" /\ state' = "Ready" /\ Takes("Switchover")
            \/ state = "Ready" /\ state' = "Destroying" /\ Takes("Destroy")
            \/ state = "Destroying" /\ state' = "Destroyed" /\ Takes("Switchover")]_vars

\* The handler went through all four states and returned.
C1_Witness == state = "Destroyed" /\ hpc = "returned_ok" /\ nSent = 3

\* C2: a Switchover handled in state Ready with a tunnel in next_tunnel makes that
\* tunnel the current one and empties next_tunnel, with the state still Ready and
\* BEGIN sent on the new tunnel while the old one is neither torn down nor queued
\* for teardown; exactly one build task is spawned and the old tunnel is handed
\* to a teardown task, which it leaves only by being torn down.
C2_Switchover ==
    /\ [][(state = "Ready" /\ Takes("Switchover") /\ next_tunnel # None) =>
            /\ tunnel' = Unwrap(next_tunnel)
            /\ next_tunnel' = None
            /\ state' = "Ready"
            /\ Len(wire') = Len(wire) + 1
            /\ SubSeq(wire', 1, Len(wire)) = wire
            /\ wire'[Len(wire')].kind = "BEGIN"
            /\ wire'[Len(wire')].uid = Unwrap(next_tunnel).uid
            /\ tunnel.uid \notin tornDown \cup pendingTeardown
            /\ tornDown' = tornDown
            /\ builds' = Append(builds, [pc |-> "build"])
            /\ pendingTeardown' = pendingTeardown \cup {tunnel.uid}]_vars
    /\ [][\A u \in pendingTeardown : u \in pendingTeardown' \/ u \in tornDown']_vars

\* A switchover replaced the first tunnel, spawned the second build and the
\* first tunnel has been torn down.
C2_Witness ==
    /\ state = "Ready" /\ hpc = "running"
    /\ tunnel.uid = 1
    /\ next_tunnel = None
    /\ Len(builds) = 2
    /\ 0 \in tornDown

\* The handler is inside the Destroying arm of handle_request.
Unbuilding == hpc \in {"unbuild_current", "unbuild_next"}

\* C3: a Switchover taken in state Destroying sets the state to Destroyed; when
\* its handling returns, teardown has been run on the current tunnel and on the
\* tunnel in next_tunnel; from Destroyed on, handle() takes no request and no
\* inbound frame, sends nothing, only finishes the two teardowns and returns Ok.
C3_Destroy ==
    /\ [][(state = "Destroying" /\ Takes("Switchover")) =>
            /\ state' = "Destroyed"
            /\ hpc' = "unbuild_current"]_vars
    /\ [][(Unbuilding /\ hpc' = "running") =>
            /\ tunnel.uid \in tornDown'
            /\ next_tunnel # None => Unwrap(next_tunnel).uid \in tornDown']_vars
    /\ [][state = "Destroyed" =>
            /\ Len(requests') >= Len(requests)
            /\ nInbound' = nInbound
            /\ events' = events
            /\ wire' = wire
            /\ state' = "Destroyed"
            /\ hpc' # hpc =>
                  \/ hpc = "unbuild_current" /\ hpc' \in {"unbuild_next", "running"}
                  \/ hpc = "unbuild_next" /\ hpc' = "running"
                  \/ hpc = "running" /\ hpc' = "returned_ok"]_vars
    /\ [](hpc = "returned_ok" => state = "Destroyed" /\ tunnel.uid \in tornDown)

\* The handler returned after tearing down the current and the next tunnel,
\* with a request still in the queue.
C3_Witness ==
    /\ hpc = "returned_ok"
    /\ next_tunnel # None
    /\ {tunnel.uid, Unwrap(next_tunnel).uid} \subseteq tornDown
    /\ requests # <<>>


\* The frames of the given kind on the wire, as indices.
FramesOf(kind) == {i \in DOMAIN wire : wire[i].kind = kind}

\* An operation on the current tunnel (send_data, begin) failed with an error of
\* the Broken class.
BrokenOperation == \E i \in DOMAIN wire : wire[i].res = "Io"

\* C4: once an operation on the current tunnel has failed with a Broken-class
\* error the handler is in Destroying (or, after the next Switchover, Destroyed),
\* it has not stopped with the tunnel not torn down, and an Event::Error for the
\* tunnel has been emitted.
C4_BrokenSchedulesTeardown ==
    BrokenOperation =>
        /\ state \in {"Destroying", "Destroyed"}
        /\ Exited => wire[Len(wire)].uid \in tornDown
        /\ \E i \in DOMAIN events : events[i].kind = "Error"

\* C5: a Request::Destroy taken in any state before Destroyed puts the handler
\* into Destroying, and so does a running handler's next step once the request
\* channel is closed and drained; from Destroying the handler only stops by the
\* Switchover that tears the current tunnel down.
C5_CancelEntersDestroying ==
    /\ [][(state # "Destroyed" /\ Takes("Destroy")) => state' = "Destroying"]_vars
    /\ [][(hpc = "running" /\ state \in {"Building", "Ready"} /\ ~requestsOpen
             /\ requests = <<>> /\ <<hpc, state, nInbound>>' # <<hpc, state, nInbound>>)
            => state' = "Destroying"]_vars
    /\ [][(state = "Destroying" /\ hpc = "running" /\ Exited')
            => tunnel.uid \in tornDown]_vars

\* C6: a tunnel returned by build() ends at the builder's dest and has n_hops
\* hops before it.
C6_EndsAtDest ==
    bld.pc = "ok" =>
        LET hops == Unwrap(bld.result).hops
        IN  /\ Len(hops) = builder.n_hops + 1
            /\ hops[Len(hops)] = builder.dest

\* C7: every tunnel build() returns has n_hops + 1 session keys, whatever the
\* handshake outcomes, and so has every tunnel a build task deposited in
\* next_tunnel and every tunnel a switchover made current.
C7_KeyCount ==
    /\ \A r \in BuildReturns :
          r.pc = "ok" => TunnelLen(Unwrap(r.result)) = r.builder.n_hops + 1
    /\ next_tunnel # None => TunnelLen(Unwrap(next_tunnel)) = builder.n_hops + 1
    /\ tunnel # first_tunnel => TunnelLen(tunnel) = builder.n_hops + 1

\* A switchover installed a tunnel with more than one hop.
C7_Witness ==
    /\ state = "Ready"
    /\ tunnel # first_tunnel
    /\ builder.n_hops = MaxHops
    /\ Len(tunnel.hops) = MaxHops + 1
    /\ FramesOf("BEGIN") # {}

\* C8: if the first tunnel carries the builder's tunnel_id, so does the current
\* tunnel at all times, every BEGIN and DATA frame sent and every Event::Ready.
C8_StableTunnelId ==
    first_tunnel.id = builder.tunnel_id =>
        /\ tunnel.id = builder.tunnel_id
        /\ \A i \in DOMAIN wire : wire[i].tunnel_id = builder.tunnel_id
        /\ \A i \in DOMAIN events :
              events[i].kind = "Ready" => events[i].tunnel_id = builder.tunnel_id

\* Two switchovers and a DATA send after them, with matching ids.
C8_Witness ==
    /\ first_tunnel.id = builder.tunnel_id
    /\ Cardinality(FramesOf("BEGIN")) = 2
    /\ wire[Len(wire)].kind = "DATA"
    /\ wire[Len(wire)].uid = 2
    /\ events # <<>>

\* C9: a Request::Data taken in state Ready appends exactly one DATA frame, for
\* that request and on the tunnel current at that moment; no other step sends
\* DATA; the DATA frames are in the order of the requests and no request is
\* sent twice.
C9_DataOnceInOrder ==
    /\ [][(state = "Ready" /\ Takes("Data")) =>
            /\ Len(wire') = Len(wire) + 1
            /\ SubSeq(wire', 1, Len(wire)) = wire
            /\ wire'[Len(wire')].kind = "DATA"
            /\ wire'[Len(wire')].uid = tunnel.uid
            /\ wire'[Len(wire')].data = Head(requests).data
            /\ wire'[Len(wire')].seq = Head(requests).seq]_vars
    /\ [][Cardinality(FramesOf("DATA")') # Cardinality(FramesOf("DATA"))
            => (state = "Ready" /\ Takes("Data"))]_vars
    /\ [](\A i, j \in FramesOf("DATA") : i < j => wire[i].seq < wire[j].seq)

\* DATA on the first tunnel, a switchover, DATA on the second tunnel.
C9_Witness ==
    \E i, j, k \in DOMAIN wire :
        /\ i < j /\ j < k
        /\ wire[i].kind = "DATA" /\ wire[i].uid = 0
        /\ wire[j].kind = "BEGIN" /\ wire[j].res = "Ok"
        /\ wire[k].kind = "DATA" /\ wire[k].uid = 1

\* The Event::Ready among the events, as indices.
ReadyEvents == {i \in DOMAIN events : events[i].kind = "Ready"}

\* C10: Event::Ready is emitted by the Switchover taken in state Building and by
\* no other step; that step, when the event is accepted, appends Ready with the
\* tunnel's id and spawns exactly one build task; there is at most one Ready
\* and it precedes every Event::Data.
C10_ReadyOnce ==
    /\ [][(state = "Building" /\ Takes("Switchover") /\ hpc' = "running") =>
            /\ events' = Append(events, [kind |-> "Ready", tunnel_id |-> tunnel.id,
                                         data |-> "-"])
            /\ builds' = Append(builds, [pc |-> "build"])]_vars
    /\ [][ReadyEvents' # ReadyEvents => (state = "Building" /\ Takes("Switchover"))]_vars
    /\ [](Cardinality(ReadyEvents) <= 1)
    /\ [](events # <<>> => events[1].kind = "Ready")

\* Ready was emitted, then an Event::Data.
C10_Witness ==
    /\ Len(events) = 2
    /\ events[1].kind = "Ready"
    /\ events[2].kind = "Data"
    /\ Len(builds) >= 1

\* The handler takes an inbound frame from accept_opaque() in this step.
Accepts == nInbound' = nInbound + 1

\* msg is an OPAQUE whose layers come off with the keys of tunnel t taken in
\* reverse list order, leaving a message of the given kind with a valid digest.
Valid(msg, kind, t) == msg.kind = kind /\ msg.layers = Reverse(t.session_keys)

\* The Event::Data among the events, as indices.
DataEvents == {i \in DOMAIN events : events[i].kind = "Data"}

\* C11: in Ready or Destroying an inbound OPAQUE that is a valid DATA after the
\* layers are peeled with the session keys in reverse list order appends exactly
\* one Event::Data with its payload (the event channel accepting it) and leaves
\* state, tunnel and next_tunnel as they are; no other step emits Event::Data;
\* in Building no inbound frame is taken.
C11_InboundData ==
    /\ [][(Accepts /\ Valid(Unwrap(inbound'), "Data", tunnel) /\ eventsOpen) =>
            /\ state \in {"Ready", "Destroying"}
            /\ events' = Append(events, [kind |-> "Data",
                                         tunnel_id |-> Unwrap(inbound').tunnel_id,
                                         data |-> Unwrap(inbound').data])
            /\ state' = state
            /\ tunnel' = tunnel
            /\ next_tunnel' = next_tunnel
            /\ hpc' = "running"]_vars
    /\ [][DataEvents' # DataEvents =>
            (Accepts /\ Valid(Unwrap(inbound'), "Data", tunnel))]_vars
    /\ [][state = "Building" => (nInbound' = nInbound /\ inbound' = inbound)]_vars

\* A DATA frame came in through a two-hop tunnel in state Destroying and its
\* event was emitted.
C11_Witness ==
    /\ state = "Destroying" /\ hpc = "running"
    /\ Len(tunnel.session_keys) = 2
    /\ inbound # None
    /\ Valid(Unwrap(inbound), "Data", tunnel)
    /\ events # <<>>
    /\ events[Len(events)].kind = "Data"

\* C12: in Ready or Destroying an inbound END makes the handler emit Event::End
\* and start the teardown of the tunnel, an inbound frame that is neither DATA
\* nor END or has a broken digest makes it tear the tunnel down, and in both
\* cases the handler keeps running.
C12_EndAndInvalidHandled ==
    /\ [][(Accepts /\ Valid(Unwrap(inbound'), "End", tunnel)) =>
            /\ hpc' = "running"
            /\ events' # events
            /\ events'[Len(events')].kind = "End"
            /\ (state' = "Destroying"
                  \/ tunnel.uid \in tornDown' \cup pendingTeardown')]_vars
    /\ [][(Accepts /\ (Valid(Unwrap(inbound'), "Other", tunnel)
                        \/ (Unwrap(inbound').kind = "Data"
                              /\ ~Valid(Unwrap(inbound'), "Data", tunnel)))) =>
            /\ hpc' = "running"
            /\ (state' = "Destroying"
                  \/ tunnel.uid \in tornDown' \cup pendingTeardown')]_vars

\* C13: a switchover in state Ready hands the old tunnel to its teardown only
\* after an END for the tunnel id was sent on it.
C13_EndBeforeTeardown ==
    [][\A u \in pendingTeardown' \ pendingTeardown :
          \E i \in DOMAIN wire' : wire'[i].kind = "END" /\ wire'[i].uid = u]_vars

\* C14: build() starts at most MAX_PEER_FAILURES handshake rounds, every step of
\* its loop either leaves the loop or uses up one of its MAX_PEER_FAILURES
\* iterations, and in the loop a step is always possible: build() terminates.
C14_BoundedRounds ==
    /\ bld.rounds <= MAX_PEER_FAILURES
    /\ bld.rounds <= bld.i
    /\ bld.i <= MAX_PEER_FAILURES
    /\ bld.pc = "loop" => ENABLED NextBuild
    /\ \A b \in BuildStep(bld, builder, 1) :
          bld.pc = "loop" => (b.pc # "loop" \/ b.i = bld.i + 1)

\* build() gave up after MAX_PEER_FAILURES handshake rounds.
C14_Witness ==
    /\ bld.pc = "err"
    /\ bld.rounds = MAX_PEER_FAILURES
    /\ builder.n_hops = MaxHops

\* C15: when build() returns its error because the loop ran out, no partial
\* tunnel was dropped without teardown.
C15_PartialTornDown ==
    (bld.pc = "err" /\ bld.i >= MAX_PEER_FAILURES) => bld.dropped = 0

\* The handler has exited and no spawned task is left to run.
Quiescent ==
    /\ Exited
    /\ pendingTeardown = {}
    /\ \A k \in DOMAIN builds : builds[k].pc # "build"

\* C16: once a handler that reached Destroyed has returned and every task has
\* run, every tunnel a build task deposited is the (torn down) current tunnel
\* or has been torn down.
C16_DepositDiscarded ==
    (Quiescent /\ hpc = "returned_ok") =>
        \A k \in DOMAIN builds : builds[k].pc = "done" => k \in tornDown

\* C17: a Tunnel always has at least one session key, and truncate(n) with
\* n >= len returns Incomplete, sends nothing and removes nothing.
C17_AtLeastOneKey ==
    /\ Len(self.session_keys) >= 1
    /\ (lastCall.name = "truncate" /\ lastCall.n >= Len(lastCall.before.session_keys)) =>
          /\ lastCall.res = "Incomplete"
          /\ ~lastCall.sent
          /\ self = lastCall.before

\* truncate(n) was refused on a tunnel of three hops with n its length.
C17_Witness ==
    /\ lastCall.name = "truncate"
    /\ Len(lastCall.before.session_keys) = 3
    /\ lastCall.n = 3
    /\ lastCall.res = "Incomplete"

\* The answer to the EXTEND of the last call did not verify.
DeriveFailed == lastCall.name = "extend" /\ lastCall.out.sock = "Ok" /\ ~lastCall.out.derive

\* C18: an extend whose answer does not verify issues truncate(0) and, when that
\* succeeds, returns Incomplete with session_keys as before the call, which the
\* builder keeps as its tunnel; extend returns Broken only when the handshake's
\* socket operation or that truncate failed.
C18_ExtendRollback ==
    /\ DeriveFailed =>
          /\ lastCall.sent
          /\ lastCall.res = (IF lastCall.out.trunc = "Ok" THEN "Incomplete" ELSE "Broken")
          /\ self.session_keys = lastCall.before.session_keys
          /\ LET b == [BuildStart EXCEPT !.tunnel = Some(lastCall.before)]
             IN  lastCall.res = "Incomplete" =>
                    ExtendResult(b, lastCall.peer, lastCall.out).tunnel = Some(self)
    /\ (lastCall.name = "extend" /\ lastCall.res = "Broken") =>
          \/ lastCall.out.sock # "Ok"
          \/ DeriveFailed /\ lastCall.out.trunc # "Ok"

\* A two-hop tunnel was extended, the answer did not verify and the rollback
\* succeeded.
C18_Witness ==
    /\ DeriveFailed
    /\ lastCall.res = "Incomplete"
    /\ Len(lastCall.before.session_keys) = 2
    /\ self.hops = lastCall.before.hops

\* C19 as claimed: after successful calls session_keys is in physical hop
\* order, keys[0] the first hop's key and the last element the terminal hop's.
C19_PhysicalOrder ==
    lastCall.clean =>
        /\ Len(self.session_keys) = Len(self.hops)
        /\ \A i \in DOMAIN self.session_keys :
              self.session_keys[i] = SessionKey(self.hops[i], i)

\* C19 amended: after successful calls session_keys is in reverse physical hop
\* order, keys[0] the key of the current terminal hop and the last element the
\* key of the first hop.
C19_ReverseOrder ==
    lastCall.clean =>
        /\ Len(self.session_keys) = Len(self.hops)
        /\ \A i \in DOMAIN self.session_keys :
              self.session_keys[i] =
                  SessionKey(self.hops[Len(self.hops) + 1 - i], Len(self.hops) + 1 - i)

\* A three-hop tunnel was cut back to two hops.
C19_Witness ==
    /\ lastCall.clean
    /\ lastCall.name = "truncate"
    /\ lastCall.res = "Ok"
    /\ lastCall.n = 1
    /\ Len(self.session_keys) = 2

\* The build tasks that have not finished.
InFlight == {k \in DOMAIN builds : builds[k].pc = "build"}

\* C20: at most one build task is in flight at any time, and a deposit into
\* next_tunnel finds the cell empty.
C20_OneBuildInFlight ==
    /\ [](Cardinality(InFlight) <= 1)
    /\ [][(next_tunnel' # next_tunnel /\ next_tunnel' # None) => next_tunnel = None]_vars

\* The third build task has deposited its tunnel.
C20_Witness ==
    /\ Len(builds) = 3
    /\ builds[3].pc = "done"
    /\ next_tunnel # None
    /\ Unwrap(next_tunnel).uid = 3

\* The local `tunnel` of build() holds a tunnel of n_hops + 1 hops.
HoldsComplete ==
    /\ bld.tunnel # None
    /\ TunnelLen(Unwrap(bld.tunnel)) = builder.n_hops + 1

\* C21: build() returns an error only when it holds no complete tunnel: whenever
\* its loop holds a tunnel of length n_hops + 1, also one completed in the last
\* iteration, its next step returns that tunnel.
C21_CompleteIsReturned ==
    [][(bld.pc = "loop" /\ HoldsComplete) =>
            (bld'.pc = "ok" /\ bld'.result = bld.tunnel)]_vars

====
